---- MODULE Spec2Model ----
(***************************************************************************)
(* Model of src/callbacks.py: the iteration observers                      *)
(* (IterativeStrategyCallback, PatienceStrategyCallback,                   *)
(* LearningCurveStrategyCallback) and the orchestration callback           *)
(* GraphSimulationCallback, driven by a task driver and a strategy that    *)
(* call the hooks in the documented order.                                 *)
(*                                                                         *)
(* Python values are modelled as follows.                                  *)
(*  - None is the record None; every optional value is a record, so that   *)
(*    it can be compared with None.                                        *)
(*  - a dict is the sequence of its <<key, value>> pairs in insertion      *)
(*    order (Python dicts keep insertion order).                           *)
(*  - a list is a sequence; strategy.callbacks is None or [list |-> seq].  *)
(*  - an object with identity (a results dict shared between the           *)
(*    orchestration callback and an aggregator, a panel of a figure) is    *)
(*    held by reference: heap maps accumulator ids to dicts, a panel is    *)
(*    named by its figure's id and its index in figure.axes.               *)
(*  - a raised exception is recorded in error together with the effects    *)
(*    the handler had before raising.                                      *)
(***************************************************************************)
EXTENDS Integers, Sequences, FiniteSets, TLC

VARIABLES
    strategy_callback,  \* GraphSimulationCallback.strategy_callback (a class)
    path,               \* GraphSimulationCallback.path
    figure,             \* GraphSimulationCallback.figure
    axes,               \* GraphSimulationCallback.axes (the panel generator)
    legend,             \* GraphSimulationCallback.legend
    results,            \* GraphSimulationCallback.results (reference into heap, 0 = None)
    callbacks,          \* strategy.callbacks
    heap,               \* the live accumulator dicts, by identity
    disk,               \* the files written by savefig
    pc,                 \* the driver's position in the lifecycle
    last,               \* the hook called last
    error,              \* the exception it raised ("" when it returned)
    votes,              \* the values returned by the last before_iter/after_iter dispatch
    layout,             \* the locals of the last before_task call
    passed,             \* per accumulator: the before_iter arguments its aggregator received
    len_before,         \* observer list length when the last before_strategy was called
    run_args,           \* (model, metric, eval_set) of the current strategy run
    first_done,         \* the legend of the first panel completed since the last before_task
    nafter,             \* number of after_strategy calls since the last before_task
    ntasks, nruns, niters,  \* number of before_task, before_strategy, before_iter calls
    task_in,            \* the arguments of before_task
    plot_in,            \* the keyword arguments of a direct plot_lines call
    plot_out            \* its outcome

vars == <<strategy_callback, path, figure, axes, legend, results, callbacks, heap,
          disk, pc, last, error, votes, layout, passed, len_before, run_args,
          first_done, nafter, ntasks, nruns, niters, task_in, plot_in,
          plot_out>>

gsc_vars == <<strategy_callback, path, figure, axes, legend, results>>

(***************************************************************************)
(* Bounds of the model.                                                    *)
(***************************************************************************)
MaxTasks == 2
MaxRuns == 4
MaxIters == 2
MaxConfigs == 2
MaxSeriesLen == 2
MaxObservers == 3

None == [none |-> TRUE]

(***************************************************************************)
(* Python dicts as insertion-ordered sequences of <<key, value>> pairs.    *)
(***************************************************************************)
HasKey(d, k) == \E i \in DOMAIN d : d[i][1] = k

Get(d, k) == d[CHOOSE i \in DOMAIN d : d[i][1] = k][2]

SetItem(d, k, v) ==
    IF HasKey(d, k)
    THEN [i \in DOMAIN d |-> IF d[i][1] = k THEN <<k, v>> ELSE d[i]]
    ELSE Append(d, <<k, v>>)

DelItem(d, k) == SelectSeq(d, LAMBDA p : p[1] # k)

(***************************************************************************)
(* The iteration observers.  A hook takes the accumulator its observer is  *)
(* bound to and returns the accumulator afterwards and the stop vote.      *)
(***************************************************************************)
Iterative_before_iter(res, iter, metric, iter_wo_improvement, patience) ==
    [results |-> res, ret |-> FALSE]

\* Mutant: the default after_iter votes to stop once patience has run out.
Iterative_after_iter_Stop(res, iter, metric, iter_wo_improvement, patience) ==
    [results |-> res, ret |-> iter_wo_improvement >= patience]

Iterative_after_iter(res, iter, metric, iter_wo_improvement, patience) ==
    [results |-> res, ret |-> FALSE]

\* Mutant: the patience and iter_wo_improvement values are appended to each
\* other's series.
Patience_before_iter_Swapped(res, iter, err, iter_wo_improvement, patience) ==
    LET r1 == IF ~HasKey(res, "iter") THEN SetItem(res, "iter", <<>>) ELSE res
        r2 == IF ~HasKey(r1, "iter_wo_improvement")
              THEN SetItem(r1, "iter_wo_improvement", <<>>) ELSE r1
        r3 == IF ~HasKey(r2, "patience") THEN SetItem(r2, "patience", <<>>) ELSE r2
        r4 == SetItem(r3, "iter", Append(Get(r3, "iter"), iter))
        r5 == SetItem(r4, "iter_wo_improvement",
                      Append(Get(r4, "iter_wo_improvement"), patience))
        r6 == SetItem(r5, "patience", Append(Get(r5, "patience"), iter_wo_improvement))
    IN  [results |-> r6, ret |-> FALSE]

Patience_before_iter(res, iter, err, iter_wo_improvement, patience) ==
    LET r1 == IF ~HasKey(res, "iter") THEN SetItem(res, "iter", <<>>) ELSE res
        r2 == IF ~HasKey(r1, "iter_wo_improvement")
              THEN SetItem(r1, "iter_wo_improvement", <<>>) ELSE r1
        r3 == IF ~HasKey(r2, "patience") THEN SetItem(r2, "patience", <<>>) ELSE r2
        r4 == SetItem(r3, "iter", Append(Get(r3, "iter"), iter))
        r5 == SetItem(r4, "iter_wo_improvement",
                      Append(Get(r4, "iter_wo_improvement"), iter_wo_improvement))
        r6 == SetItem(r5, "patience", Append(Get(r5, "patience"), patience))
    IN  [results |-> r6, ret |-> FALSE]

LearningCurve_before_iter(res, iter, err, iter_wo_improvement, patience) ==
    LET r1 == IF ~HasKey(res, "iter") THEN SetItem(res, "iter", <<>>) ELSE res
        r2 == IF ~HasKey(r1, "error") THEN SetItem(r1, "error", <<>>) ELSE r1
        r3 == SetItem(r2, "iter", Append(Get(r2, "iter"), iter))
        r4 == SetItem(r3, "error", Append(Get(r3, "error"), err))
    IN  [results |-> r4, ret |-> FALSE]

\* The class attributes name and file_name of the two aggregators.
ClassName(cls) ==
    IF cls = "PatienceStrategyCallback" THEN "Patience Curves" ELSE "Learning Curves"

ClassFileName(cls) ==
    IF cls = "PatienceStrategyCallback" THEN "patience_curves" ELSE "learning_curves"

\* before_iter of an observer of class cls (method resolution).
before_iter(cls, res, a) ==
    IF cls = "PatienceStrategyCallback"
    THEN Patience_before_iter(res, a.iter, a.error, a.iter_wo_improvement, a.patience)
    ELSE IF cls = "LearningCurveStrategyCallback"
    THEN LearningCurve_before_iter(res, a.iter, a.error, a.iter_wo_improvement, a.patience)
    ELSE Iterative_before_iter(res, a.iter, a.error, a.iter_wo_improvement, a.patience)

\* after_iter: neither aggregator overrides it, all three classes use the default.
after_iter(cls, res, a) ==
    Iterative_after_iter(res, a.iter, a.error, a.iter_wo_improvement, a.patience)

(***************************************************************************)
(* The rendering surface: a figure with rows * cols panels.                *)
(***************************************************************************)
NewPanel ==
    [lines |-> <<>>, legend_visible |-> None, xlabel |-> "", ylabel |-> "",
     grid |-> FALSE, title |-> None]

\* plt.subplots(rows, cols, figsize = (cols * 4, rows * 4))
subplots(id, rows, cols) ==
    [id |-> id, rows |-> rows, cols |-> cols, figsize |-> <<cols * 4, rows * 4>>,
     panels |-> [i \in 1 .. rows * cols |-> NewPanel],
     suptitle |-> None, legends |-> <<>>, tight_layout |-> FALSE, saved |-> <<>>]

\* ax.get_legend_handles_labels(): the labelled lines of one panel of one figure.
get_legend_handles_labels(fig, idx, ax) ==
    [handles |-> [i \in DOMAIN ax.lines |-> <<fig, idx, i>>],
     labels |-> [i \in DOMAIN ax.lines |-> ax.lines[i].label]]

\* Mutant: the directory and the file name are concatenated without a separator.
PathJoin_NoSeparator(p, f) == p \o f

\* os.path.join(path, file_name)
PathJoin(p, f) == p \o "/" \o f

(***************************************************************************)
(* GraphSimulationCallback.generator and next() on it.                     *)
(***************************************************************************)
\* Mutant: the panels are yielded from the last to the first.
generator_Reversed(array) ==
    [items |-> [i \in DOMAIN array |-> array[Len(array) + 1 - i]], pos |-> 1]

generator(array) == [items |-> array, pos |-> 1]

\* Mutant: an exhausted generator starts again from the first item.
GenNext_Wrap(g) ==
    IF g.pos > Len(g.items)
    THEN [stop |-> FALSE, item |-> g.items[1], gen |-> [g EXCEPT !.pos = 2]]
    ELSE [stop |-> FALSE, item |-> g.items[g.pos], gen |-> [g EXCEPT !.pos = g.pos + 1]]

GenNext(g) ==
    IF g.pos > Len(g.items)
    THEN [stop |-> TRUE, item |-> 0, gen |-> g]
    ELSE [stop |-> FALSE, item |-> g.items[g.pos], gen |-> [g EXCEPT !.pos = g.pos + 1]]

\* Mutant: the precondition on the number of series is not checked.
plot_lines_NoCheck(x, ax, kwargs) ==
    IF ~HasKey(kwargs, x)
    THEN [error |-> "KeyError", ax |-> ax]
    ELSE LET xs == Get(kwargs, x)
             rest == DelItem(kwargs, x)
             drawn == [i \in DOMAIN rest |->
                          [label |-> rest[i][1], x |-> xs, y |-> rest[i][2]]]
         IN  [error |-> "",
              ax |-> [ax EXCEPT !.lines = ax.lines \o drawn,
                                !.legend_visible = [visible |-> FALSE],
                                !.xlabel = x,
                                !.ylabel = x,
                                !.grid = TRUE]]

\* Mutant: the precondition is off by one (len(kwargs) < 1).
plot_lines_OffByOne(x, ax, kwargs) ==
    IF Len(kwargs) < 1
    THEN [error |-> "ValueError", ax |-> ax]
    ELSE IF ~HasKey(kwargs, x)
    THEN [error |-> "KeyError", ax |-> ax]
    ELSE LET xs == Get(kwargs, x)
             rest == DelItem(kwargs, x)
             drawn == [i \in DOMAIN rest |->
                          [label |-> rest[i][1], x |-> xs, y |-> rest[i][2]]]
         IN  [error |-> "",
              ax |-> [ax EXCEPT !.lines = ax.lines \o drawn,
                                !.legend_visible = [visible |-> FALSE],
                                !.xlabel = x,
                                !.ylabel = x,
                                !.grid = TRUE]]

(***************************************************************************)
(* GraphSimulationCallback.plot_lines(x, ax, **kwargs): the outcome is the *)
(* exception raised ("" for none) and the panel afterwards.                *)
(***************************************************************************)
plot_lines(x, ax, kwargs) ==
    IF Len(kwargs) < 2
    THEN [error |-> "ValueError", ax |-> ax]
    ELSE IF ~HasKey(kwargs, x)
    THEN [error |-> "KeyError", ax |-> ax]
    ELSE LET xs == Get(kwargs, x)
             rest == DelItem(kwargs, x)
             drawn == [i \in DOMAIN rest |->
                          [label |-> rest[i][1], x |-> xs, y |-> rest[i][2]]]
         IN  [error |-> "",
              ax |-> [ax EXCEPT !.lines = ax.lines \o drawn,
                                !.legend_visible = [visible |-> FALSE],
                                !.xlabel = x,
                                !.ylabel = x,
                                !.grid = TRUE]]

(***************************************************************************)
(* The grid computation of before_task.                                    *)
(***************************************************************************)
\* Mutant: the filter is ignored (the concise form the source comments out).
FilteredLen_NoFilter(a, b) == Cardinality(a)

\* len(np.intersect1d(a, b)) when the filter b is truthy, len(a) otherwise
FilteredLen(a, b) == IF b # {} THEN Cardinality(a \cap b) ELSE Cardinality(a)

RECURSIVE TotalCurves(_, _, _)
TotalCurves(curve_data, filters, i) ==
    IF i > Len(curve_data) THEN 0
    ELSE LET model == curve_data[i][1]
             data == curve_data[i][2]
         IN  IF filters.models # {} /\ model \notin filters.models
             THEN TotalCurves(curve_data, filters, i + 1)
             ELSE FilteredLen(data.metrics, filters.metrics)
                    * FilteredLen(data.eval_sets, filters.eval_sets)
                  + TotalCurves(curve_data, filters, i + 1)

RECURSIVE TotalConfigs(_, _)
TotalConfigs(strategies, i) ==
    IF i > Len(strategies) THEN 0
    ELSE Len(strategies[i][2]) + TotalConfigs(strategies, i + 1)

\* Mutant: a grid has at least one column.
CeilSqrt_AtLeastOne(n) ==
    CHOOSE c \in 1 .. n + 1 : c * c >= n /\ (c = 1 \/ (c - 1) * (c - 1) < n)

\* int(np.ceil(np.sqrt(n)))
CeilSqrt(n) == CHOOSE c \in 0 .. n : c * c >= n /\ (c = 0 \/ (c - 1) * (c - 1) < n)

\* Mutant: the quotient is rounded down.
CeilDiv_Floor(n, d) == n \div d

\* int(np.ceil(n / d)) for d > 0
CeilDiv(n, d) == (n + d - 1) \div d

(***************************************************************************)
(* GraphSimulationCallback.  Each method is an action on the fields of the *)
(* callback, the strategy's observer list, the heap and the rendering      *)
(* surface; it sets error to the exception it raises.                      *)
(***************************************************************************)
\* __init__: all four mutable fields start as None.
GraphSimulationCallback_init(cls, p) ==
    /\ strategy_callback = cls
    /\ path = p
    /\ figure = None
    /\ axes = None
    /\ legend = None
    /\ results = 0

before_task(curve_data, strategies, filters) ==
    LET total_curves == TotalCurves(curve_data, filters, 1)
        total_configs == TotalConfigs(strategies, 1)
        num_axes == total_curves * total_configs
        cols == CeilSqrt(num_axes)
    IN  IF cols = 0
        THEN \* num_axes / cols raises before figure and axes are assigned
             /\ error' = "ZeroDivisionError"
             /\ layout' = [total_curves |-> total_curves, total_configs |-> total_configs,
                           num_axes |-> num_axes, cols |-> cols]
             /\ UNCHANGED <<figure, axes>>
        ELSE LET rows == CeilDiv(num_axes, cols)
                 fig == subplots(ntasks + 1, rows, cols)
             IN  /\ error' = ""
                 /\ layout' = [total_curves |-> total_curves,
                               total_configs |-> total_configs,
                               num_axes |-> num_axes, cols |-> cols, rows |-> rows]
                 /\ figure' = fig
                 /\ axes' = generator([i \in DOMAIN fig.panels |-> <<fig.id, i>>])

\* Mutant: the figure legend is left out when no legend has been captured.
after_task_SkipLegend ==
    IF figure = None
    THEN /\ error' = "AttributeError"
         /\ UNCHANGED <<figure, disk>>
    ELSE LET f1 == [figure EXCEPT !.suptitle = [text |-> ClassName(strategy_callback)]]
             f2 == IF legend = None THEN f1 ELSE [f1 EXCEPT !.legends = Append(@, legend)]
             f3 == [f2 EXCEPT !.tight_layout = TRUE]
         IN  IF path = None
             THEN /\ error' = "TypeError"
                  /\ figure' = f3
                  /\ UNCHANGED disk
             ELSE LET file == PathJoin(path.str, ClassFileName(strategy_callback))
                  IN  /\ error' = ""
                      /\ figure' = [f3 EXCEPT !.saved = Append(@, file)]
                      /\ disk' = disk \cup {file}

\* Mutant: an unset path falls back to the current directory.
after_task_DefaultPath ==
    IF figure = None
    THEN /\ error' = "AttributeError"
         /\ UNCHANGED <<figure, disk>>
    ELSE LET f1 == [figure EXCEPT !.suptitle = [text |-> ClassName(strategy_callback)]]
         IN  IF legend = None
             THEN /\ error' = "TypeError"
                  /\ figure' = f1
                  /\ UNCHANGED disk
             ELSE LET f2 == [f1 EXCEPT !.legends = Append(@, legend)]
                      f3 == [f2 EXCEPT !.tight_layout = TRUE]
                      dir == IF path = None THEN "." ELSE path.str
                      file == PathJoin(dir, ClassFileName(strategy_callback))
                  IN  /\ error' = ""
                      /\ figure' = [f3 EXCEPT !.saved = Append(@, file)]
                      /\ disk' = disk \cup {file}

after_task ==
    IF figure = None
    THEN /\ error' = "AttributeError"
         /\ UNCHANGED <<figure, disk>>
    ELSE LET f1 == [figure EXCEPT !.suptitle = [text |-> ClassName(strategy_callback)]]
         IN  IF legend = None
             THEN /\ error' = "TypeError"
                  /\ figure' = f1
                  /\ UNCHANGED disk
             ELSE LET f2 == [f1 EXCEPT !.legends = Append(@, legend)]
                      f3 == [f2 EXCEPT !.tight_layout = TRUE]
                  IN  IF path = None
                      THEN /\ error' = "TypeError"
                           /\ figure' = f3
                           /\ UNCHANGED disk
                      ELSE LET file == PathJoin(path.str, ClassFileName(strategy_callback))
                           IN  /\ error' = ""
                               /\ figure' = [f3 EXCEPT !.saved = Append(@, file)]
                               /\ disk' = disk \cup {file}

\* The accumulators still referenced by an observer of the list.
Referenced(cbs) ==
    IF cbs = None THEN {}
    ELSE {cbs.list[i].results : i \in DOMAIN cbs.list} \ {0}

\* Mutant: the accumulator of the previous run is carried into the new one.
FreshResults_Reuse(h, old) == IF old = 0 THEN <<>> ELSE h[old]

\* self.results = {} : the content of the accumulator that before_strategy binds.
FreshResults(h, old) == <<>>

\* Mutant: the new aggregator is put in front of the observers already there.
before_strategy_Prepend(model, metric, eval_set) ==
    LET id == nruns + 1
        new_callback == [cls |-> strategy_callback, results |-> id]
        live == Referenced(callbacks) \cup {id}
    IN  /\ results' = id
        /\ heap' = [i \in live |-> IF i = id THEN FreshResults(heap, results) ELSE heap[i]]
        /\ callbacks' = IF callbacks # None /\ callbacks.list # <<>>
                        THEN [list |-> <<new_callback>> \o callbacks.list]
                        ELSE [list |-> <<new_callback>>]
        /\ error' = ""

before_strategy(model, metric, eval_set) ==
    LET id == nruns + 1
        new_callback == [cls |-> strategy_callback, results |-> id]
        live == Referenced(callbacks) \cup {id}
    IN  /\ results' = id
        /\ heap' = [i \in live |-> IF i = id THEN FreshResults(heap, results) ELSE heap[i]]
        /\ callbacks' = IF callbacks # None /\ callbacks.list # <<>>
                        THEN [list |-> Append(callbacks.list, new_callback)]
                        ELSE [list |-> <<new_callback>>]
        /\ error' = ""

\* if self.legend is None: self.legend = ax.get_legend_handles_labels()
CaptureLegend(old, fig, idx, ax) ==
    IF old = None THEN get_legend_handles_labels(fig, idx, ax) ELSE old

\* strategy.callbacks.pop()
PopCallback(cbs) == [list |-> SubSeq(cbs.list, 1, Len(cbs.list) - 1)]

\* Mutant: the aggregator is detached whether or not the plot was drawn.
after_strategy_AlwaysPop(model, metric, eval_set, strategy) ==
    IF axes = None
    THEN /\ error' = "TypeError"
         /\ UNCHANGED <<axes, figure, legend, callbacks>>
    ELSE LET nx == GenNext(axes)
         IN  IF nx.stop
             THEN /\ error' = "StopIteration"
                  /\ callbacks' = PopCallback(callbacks)
                  /\ UNCHANGED <<axes, figure, legend>>
             ELSE IF results = 0
             THEN /\ error' = "TypeError"
                  /\ axes' = nx.gen
                  /\ UNCHANGED <<figure, legend, callbacks>>
             ELSE LET idx == nx.item[2]
                      pl == plot_lines("iter", figure.panels[idx], heap[results])
                  IN  IF pl.error # ""
                      THEN /\ error' = pl.error
                           /\ axes' = nx.gen
                           /\ figure' = [figure EXCEPT !.panels[idx] = pl.ax]
                           /\ callbacks' = PopCallback(callbacks)
                           /\ UNCHANGED legend
                      ELSE LET titled == [pl.ax EXCEPT !.title =
                                            [strategy |-> strategy, model |-> model,
                                             metric |-> metric, eval_set |-> eval_set]]
                           IN  /\ axes' = nx.gen
                               /\ legend' = CaptureLegend(legend, nx.item[1], idx, pl.ax)
                               /\ figure' = [figure EXCEPT !.panels[idx] = titled]
                               /\ IF callbacks = None
                                  THEN error' = "AttributeError" /\ UNCHANGED callbacks
                                  ELSE IF callbacks.list = <<>>
                                  THEN error' = "IndexError" /\ UNCHANGED callbacks
                                  ELSE error' = "" /\ callbacks' = PopCallback(callbacks)

after_strategy(model, metric, eval_set, strategy) ==
    IF axes = None
    THEN /\ error' = "TypeError"
         /\ UNCHANGED <<axes, figure, legend, callbacks>>
    ELSE LET nx == GenNext(axes)
         IN  IF nx.stop
             THEN /\ error' = "StopIteration"
                  /\ UNCHANGED <<axes, figure, legend, callbacks>>
             ELSE IF results = 0
             THEN /\ error' = "TypeError"
                  /\ axes' = nx.gen
                  /\ UNCHANGED <<figure, legend, callbacks>>
             ELSE LET idx == nx.item[2]
                      pl == plot_lines("iter", figure.panels[idx], heap[results])
                  IN  IF pl.error # ""
                      THEN /\ error' = pl.error
                           /\ axes' = nx.gen
                           /\ figure' = [figure EXCEPT !.panels[idx] = pl.ax]
                           /\ UNCHANGED <<legend, callbacks>>
                      ELSE LET titled == [pl.ax EXCEPT !.title =
                                            [strategy |-> strategy, model |-> model,
                                             metric |-> metric, eval_set |-> eval_set]]
                           IN  /\ axes' = nx.gen
                               /\ legend' = CaptureLegend(legend, nx.item[1], idx, pl.ax)
                               /\ figure' = [figure EXCEPT !.panels[idx] = titled]
                               /\ IF callbacks = None
                                  THEN error' = "AttributeError" /\ UNCHANGED callbacks
                                  ELSE IF callbacks.list = <<>>
                                  THEN error' = "IndexError" /\ UNCHANGED callbacks
                                  ELSE error' = "" /\ callbacks' = PopCallback(callbacks)

(***************************************************************************)
(* The strategy: per iteration it calls before_iter, then after_iter, on   *)
(* every observer of its list, in list order.                              *)
(***************************************************************************)
CallHook(hook, cls, res, a) ==
    IF hook = "before_iter" THEN before_iter(cls, res, a) ELSE after_iter(cls, res, a)

RECURSIVE Dispatch(_, _, _, _, _)
Dispatch(hook, cbs, i, h, a) ==
    IF i > Len(cbs) THEN [heap |-> h, votes |-> <<>>]
    ELSE LET cb == cbs[i]
             out == CallHook(hook, cb.cls, IF cb.results = 0 THEN <<>> ELSE h[cb.results], a)
             h1 == IF cb.results = 0 THEN h ELSE [h EXCEPT ![cb.results] = out.results]
             tl == Dispatch(hook, cbs, i + 1, h1, a)
         IN  [heap |-> tl.heap, votes |-> <<out.ret>> \o tl.votes]

ObserverList == IF callbacks = None THEN <<>> ELSE callbacks.list

CbLen(cbs) == IF cbs = None THEN 0 ELSE Len(cbs.list)

(***************************************************************************)
(* Inputs.                                                                 *)
(***************************************************************************)
Classes == {"PatienceStrategyCallback", "LearningCurveStrategyCallback"}

Paths == {None, [str |-> "out"]}

InitialCallbacks ==
    {None, [list |-> <<>>],
     [list |-> <<[cls |-> "IterativeStrategyCallback", results |-> 0]>>]}

IterArgs ==
    {[iter |-> 1, error |-> 50, iter_wo_improvement |-> 0, patience |-> 7],
     [iter |-> 2, error |-> 40, iter_wo_improvement |-> 9, patience |-> 8]}

\* (model, metric, eval_set) of the n-th strategy run
RunArgs(n) == IF n % 2 = 1 THEN <<"m1", "mse", "train">> ELSE <<"m2", "mae", "val">>

NoFilter == [models |-> {}, metrics |-> {}, eval_sets |-> {}]

OneCurve == <<<<"m1", [eval_sets |-> {"train"}, metrics |-> {"mse"}]>>>>

\* before_task arguments giving num_axes = 1, 3 and 0
TaskInputs ==
    {[curve_data |-> OneCurve, strategies |-> <<<<"s1", <<"c1">>>>>>, filters |-> NoFilter],
     [curve_data |-> OneCurve, strategies |-> <<<<"s1", <<"c1", "c2", "c3">>>>>>,
      filters |-> NoFilter],
     [curve_data |-> OneCurve, strategies |-> <<<<"s1", <<"c1">>>>>>,
      filters |-> [models |-> {"m2"}, metrics |-> {}, eval_sets |-> {}]]}

NoTask == [curve_data |-> <<>>, strategies |-> <<>>, filters |-> NoFilter]

(***************************************************************************)
(* The lifecycle: before_task, then per strategy run before_strategy,      *)
(* the iterations and after_strategy, then after_task.  An exception       *)
(* surfaces to the driver, which goes on with the next call.               *)
(***************************************************************************)
Init ==
    /\ \E cls \in Classes, p \in Paths : GraphSimulationCallback_init(cls, p)
    /\ callbacks \in InitialCallbacks
    /\ heap = <<>>
    /\ passed = <<>>
    /\ disk = {}
    /\ pc = "idle"
    /\ last = ""
    /\ error = ""
    /\ votes = <<>>
    /\ layout = None
    /\ len_before = 0
    /\ run_args = <<>>
    /\ first_done = None
    /\ nafter = 0
    /\ ntasks = 0
    /\ nruns = 0
    /\ niters = 0
    /\ task_in = NoTask
    /\ plot_in = <<>>
    /\ plot_out = None

BeforeTask ==
    /\ pc = "idle"
    /\ ntasks < MaxTasks
    /\ \E in \in TaskInputs :
          /\ task_in' = in
          /\ before_task(in.curve_data, in.strategies, in.filters)
    /\ ntasks' = ntasks + 1
    /\ last' = "before_task"
    /\ pc' = IF error' = "" THEN "task" ELSE "idle"
    /\ first_done' = IF error' = "" THEN None ELSE first_done
    /\ nafter' = IF error' = "" THEN 0 ELSE nafter
    /\ UNCHANGED <<strategy_callback, path, legend, results, callbacks, heap, disk, votes,
                   passed, len_before, run_args, nruns, niters, plot_in,
                   plot_out>>

AfterTask ==
    /\ pc = "task"
    /\ after_task
    /\ last' = "after_task"
    /\ pc' = "idle"
    /\ UNCHANGED <<strategy_callback, path, axes, legend, results, callbacks, heap, votes,
                   layout, passed, len_before, run_args, first_done, nafter,
                   ntasks, nruns, niters, task_in, plot_in, plot_out>>

BeforeStrategy ==
    /\ pc = "task"
    /\ nruns < MaxRuns
    /\ run_args' = RunArgs(nruns + 1)
    /\ before_strategy(run_args'[1], run_args'[2], run_args'[3])
    /\ passed' = [i \in DOMAIN heap' |-> IF i \in DOMAIN passed /\ i # nruns + 1
                                         THEN passed[i] ELSE <<>>]
    /\ len_before' = CbLen(callbacks)
    /\ nruns' = nruns + 1
    /\ last' = "before_strategy"
    /\ pc' = "strategy"
    /\ UNCHANGED <<strategy_callback, path, figure, axes, legend, disk, votes, layout,
                   first_done, nafter, ntasks, niters, task_in, plot_in,
                   plot_out>>

BeforeIter ==
    /\ pc = "strategy"
    /\ niters < MaxIters
    /\ \E a \in IterArgs :
          LET d == Dispatch("before_iter", ObserverList, 1, heap, a)
          IN  /\ heap' = d.heap
              /\ votes' = d.votes
              /\ passed' = [i \in DOMAIN passed |->
                              IF i \in Referenced(callbacks)
                              THEN Append(passed[i], a) ELSE passed[i]]
    /\ niters' = niters + 1
    /\ last' = "before_iter"
    /\ error' = ""
    /\ pc' = "iter"
    /\ UNCHANGED <<gsc_vars, callbacks, disk, layout, len_before, run_args, first_done,
                   nafter, ntasks, nruns, task_in, plot_in, plot_out>>

AfterIter ==
    /\ pc = "iter"
    /\ \E a \in IterArgs :
          LET d == Dispatch("after_iter", ObserverList, 1, heap, a)
          IN  /\ heap' = d.heap
              /\ votes' = d.votes
    /\ last' = "after_iter"
    /\ error' = ""
    /\ pc' = "strategy"
    /\ UNCHANGED <<gsc_vars, callbacks, disk, layout, passed, len_before, run_args,
                   first_done, nafter, ntasks, nruns, niters, task_in,
                   plot_in, plot_out>>

AfterStrategy ==
    /\ pc = "strategy"
    /\ after_strategy(run_args[1], run_args[2], run_args[3], "strategy")
    /\ LET completed == error' \in {"", "AttributeError", "IndexError"}
           shown == get_legend_handles_labels(figure.id, axes.pos, figure'.panels[axes.pos])
       IN  /\ first_done' = IF completed /\ first_done = None THEN shown ELSE first_done
    /\ nafter' = nafter + 1
    /\ last' = "after_strategy"
    /\ pc' = "task"
    /\ UNCHANGED <<strategy_callback, path, results, heap, disk, votes, layout, passed,
                   len_before, run_args, ntasks, nruns, niters, task_in, plot_in,
                   plot_out>>

Next ==
    \/ BeforeTask
    \/ BeforeStrategy
    \/ BeforeIter
    \/ AfterIter
    \/ AfterStrategy
    \/ AfterTask

Spec == Init /\ [][Next]_vars

TypeOK ==
    /\ strategy_callback \in Classes
    /\ pc \in {"idle", "task", "strategy", "iter", "halted", "plot", "plotted"}
    /\ (figure # None /\ axes # None) =>
          \A i \in DOMAIN axes.items : axes.items[i] = <<figure.id, i>>

(***************************************************************************)
(* before_task on its own, over a range of task metadata.                  *)
(***************************************************************************)
ModelData ==
    [eval_sets : SUBSET {"train", "val"}, metrics : SUBSET {"mse", "mae"}]

SecondModelData ==
    {[eval_sets |-> {"val"}, metrics |-> {"mae"}],
     [eval_sets |-> {"train", "val"}, metrics |-> {"mse", "mae"}],
     [eval_sets |-> {"test"}, metrics |-> {"mse", "r2"}],
     [eval_sets |-> {}, metrics |-> {"mse"}]}

CurveData ==
    {<<>>}
    \cup {<<<<"m1", d>>>> : d \in ModelData}
    \cup {<<<<"m1", d>>, <<"m2", e>>>> : d \in ModelData, e \in SecondModelData}

\* the configs of one strategy: 0 .. MaxConfigs configuration objects
Configs == {[i \in 1 .. n |-> i] : n \in 0 .. MaxConfigs}

Strategies ==
    {<<>>}
    \cup {<<<<"s1", c>>>> : c \in Configs}
    \cup {<<<<"s1", c>>, <<"s2", d>>>> : c \in Configs, d \in Configs}

Filters ==
    [models : {{}, {"m1"}, {"m3"}},
     metrics : {{}, {"mse"}, {"mse", "r2"}},
     eval_sets : {{}, {"val"}}]

LayoutInputs == [curve_data : CurveData, strategies : Strategies, filters : Filters]

InitLayout ==
    /\ \E cls \in Classes, p \in Paths : GraphSimulationCallback_init(cls, p)
    /\ callbacks = None
    /\ heap = <<>>
    /\ passed = <<>>
    /\ disk = {}
    /\ pc = "idle"
    /\ last = ""
    /\ error = ""
    /\ votes = <<>>
    /\ layout = None
    /\ len_before = 0
    /\ run_args = <<>>
    /\ first_done = None
    /\ nafter = 0
    /\ ntasks = 0
    /\ nruns = 0
    /\ niters = 0
    /\ task_in \in LayoutInputs
    /\ plot_in = <<>>
    /\ plot_out = None

LayoutBeforeTask ==
    /\ pc = "idle"
    /\ ntasks = 0
    /\ before_task(task_in.curve_data, task_in.strategies, task_in.filters)
    /\ ntasks' = ntasks + 1
    /\ last' = "before_task"
    /\ pc' = IF error' = "" THEN "task" ELSE "idle"
    /\ UNCHANGED <<strategy_callback, path, legend, results, callbacks, heap, disk, votes,
                   passed, len_before, run_args, first_done, nafter, nruns,
                   niters, task_in, plot_in, plot_out>>

NextLayout == LayoutBeforeTask

SpecLayout == InitLayout /\ [][NextLayout]_vars

(***************************************************************************)
(* plot_lines on its own, on a blank panel, over a range of keyword        *)
(* arguments: up to three series of one common length, in any order.       *)
(***************************************************************************)
SeriesNames == {"iter", "error", "patience"}

SeriesValues == {1, 2}

KeyOrders ==
    {ks \in UNION {[1 .. n -> SeriesNames] : n \in 0 .. Cardinality(SeriesNames)} :
        \A i, j \in DOMAIN ks : i # j => ks[i] # ks[j]}

KwargsOf(ks, len) ==
    {[i \in DOMAIN ks |-> <<ks[i], vs[i]>>] :
        vs \in [DOMAIN ks -> [1 .. len -> SeriesValues]]}

PlotInputs == UNION {KwargsOf(ks, len) : ks \in KeyOrders, len \in 1 .. MaxSeriesLen}

InitPlot ==
    /\ \E cls \in Classes, p \in Paths : GraphSimulationCallback_init(cls, p)
    /\ callbacks = None
    /\ heap = <<>>
    /\ passed = <<>>
    /\ disk = {}
    /\ pc = "plot"
    /\ last = ""
    /\ error = ""
    /\ votes = <<>>
    /\ layout = None
    /\ len_before = 0
    /\ run_args = <<>>
    /\ first_done = None
    /\ nafter = 0
    /\ ntasks = 0
    /\ nruns = 0
    /\ niters = 0
    /\ task_in = NoTask
    /\ plot_in \in PlotInputs
    /\ plot_out = None

PlotLines ==
    /\ pc = "plot"
    /\ plot_out' = plot_lines("iter", NewPanel, plot_in)
    /\ error' = plot_out'.error
    /\ last' = "plot_lines"
    /\ pc' = "plotted"
    /\ UNCHANGED <<gsc_vars, callbacks, heap, disk, votes, layout, passed, len_before,
                   run_args, first_done, nafter, ntasks, nruns, niters,
                   task_in, plot_in>>

NextPlot == PlotLines

SpecPlot == InitPlot /\ [][NextPlot]_vars

(***************************************************************************)
(* The stop-signal protocol on its own: a strategy with up to MaxObservers *)
(* observers, among them observers that vote to stop, runs its iterations. *)
(* After each hook it halts when any observer voted to stop.               *)
(***************************************************************************)
\* Observers that vote: always, or once patience has run out.
VotingClasses == {"StopAlways", "StopOnPatience"}

ObserverVote(hook, cls, res, a) ==
    IF cls = "StopAlways" THEN [results |-> res, ret |-> TRUE]
    ELSE IF cls = "StopOnPatience"
    THEN [results |-> res, ret |-> a.iter_wo_improvement >= a.patience]
    ELSE CallHook(hook, cls, res, a)

\* every observer of the list is called, in list order
CollectVotes(hook, cbs, a) ==
    [i \in DOMAIN cbs |-> ObserverVote(hook, cbs[i].cls, <<>>, a).ret]

\* Mutant: each vote replaces the one before, the last observer decides.
StopDecision_LastOnly(vs) == vs # <<>> /\ vs[Len(vs)]

\* the strategy halts when any observer returned True
StopDecision(vs) == \E i \in DOMAIN vs : vs[i]

ObserverLists ==
    UNION {[1 .. n -> {[cls |-> c, results |-> 0] :
                          c \in VotingClasses \cup {"IterativeStrategyCallback"}}] :
           n \in 0 .. MaxObservers}

InitVote ==
    /\ \E cls \in Classes, p \in Paths : GraphSimulationCallback_init(cls, p)
    /\ callbacks \in {[list |-> l] : l \in ObserverLists}
    /\ heap = <<>>
    /\ passed = <<>>
    /\ disk = {}
    /\ pc = "strategy"
    /\ last = ""
    /\ error = ""
    /\ votes = <<>>
    /\ layout = None
    /\ len_before = 0
    /\ run_args = <<>>
    /\ first_done = None
    /\ nafter = 0
    /\ ntasks = 0
    /\ nruns = 0
    /\ niters = 0
    /\ task_in = NoTask
    /\ plot_in = <<>>
    /\ plot_out = None

VoteBeforeIter ==
    /\ pc = "strategy"
    /\ niters < MaxIters
    /\ \E a \in IterArgs : votes' = CollectVotes("before_iter", ObserverList, a)
    /\ pc' = IF StopDecision(votes') THEN "halted" ELSE "iter"
    /\ niters' = niters + 1
    /\ last' = "before_iter"
    /\ error' = ""
    /\ UNCHANGED <<gsc_vars, callbacks, heap, disk, layout, passed, len_before, run_args,
                   first_done, nafter, ntasks, nruns, task_in, plot_in,
                   plot_out>>

VoteAfterIter ==
    /\ pc = "iter"
    /\ \E a \in IterArgs : votes' = CollectVotes("after_iter", ObserverList, a)
    /\ pc' = IF StopDecision(votes') THEN "halted" ELSE "strategy"
    /\ last' = "after_iter"
    /\ error' = ""
    /\ UNCHANGED <<gsc_vars, callbacks, heap, disk, layout, passed, len_before, run_args,
                   first_done, nafter, ntasks, nruns, niters, task_in,
                   plot_in, plot_out>>

NextVote ==
    \/ VoteBeforeIter
    \/ VoteAfterIter

SpecVote == InitVote /\ [][NextVote]_vars

(***************************************************************************)
(* Properties.                                                             *)
(***************************************************************************)
\* The series an aggregator of class cls tracks.
Tracked(cls) ==
    IF cls = "PatienceStrategyCallback"
    THEN {"iter", "iter_wo_improvement", "patience"}
    ELSE {"iter", "error"}

\* The before_iter argument that belongs to series key.
ArgOf(a, key) ==
    CASE key = "iter" -> a.iter
      [] key = "error" -> a.error
      [] key = "iter_wo_improvement" -> a.iter_wo_improvement
      [] key = "patience" -> a.patience

\* The values passed for series key over the calls ps, in call order.
Column(ps, key) == [j \in DOMAIN ps |-> ArgOf(ps[j], key)]

KeySet(d) == {d[i][1] : i \in DOMAIN d}

Min(a, b) == IF a < b THEN a ELSE b

Capacity == Len(axes.items)

CompletedPanels == {i \in DOMAIN figure.panels : figure.panels[i].title # None}

\* C1: an aggregator bound to an initially empty accumulator holds, after K
\* before_iter calls, exactly its tracked series, each with the K passed
\* values in call order; after no call the accumulator is still empty.
C1_SeriesMatchCalls ==
    \A id \in DOMAIN heap :
        LET d == heap[id]
            ps == passed[id]
        IN  IF ps = <<>>
            THEN d = <<>>
            ELSE /\ KeySet(d) = Tracked(strategy_callback)
                 /\ Len(d) = Cardinality(Tracked(strategy_callback))
                 /\ \A k \in Tracked(strategy_callback) :
                       /\ Len(Get(d, k)) = Len(ps)
                       /\ Get(d, k) = Column(ps, k)

C1_Witness ==
    \E id \in DOMAIN heap :
        /\ Len(passed[id]) = 2
        /\ passed[id][1] # passed[id][2]
        /\ Len(heap[id]) >= 2

\* C2: after before_strategy followed by its matching after_strategy the
\* observer list is as long as it was before before_strategy (an absent
\* list counting as 0), whatever the outcome of after_strategy.
C2_Original == (last = "after_strategy") => CbLen(callbacks) = len_before

\* C3 as stated: the after_strategy calls beyond num_axes fail with the
\* exhaustion error.
C3_Original ==
    (last = "after_strategy" /\ nafter > layout.num_axes) => error = "StopIteration"

\* C3: the after_strategy calls of one task obtain the panels of the grid
\* once each; exactly the calls beyond rows * cols, the size of the grid,
\* fail with the exhaustion error and obtain nothing.
C3_ExhaustionAtGridSize ==
    axes # None =>
        /\ Capacity = figure.rows * figure.cols
        /\ axes.pos - 1 = Min(nafter, Capacity)
        /\ last = "after_strategy" => (error = "StopIteration" <=> nafter > Capacity)

C3_Witness ==
    /\ last = "after_strategy"
    /\ nafter = Capacity + 1
    /\ error = "StopIteration"
    /\ CompletedPanels # {}

\* C4: the legend that after_task attaches to the figure is the one of the
\* first panel completed by after_strategy in that task.
C4_Original == (last = "after_task" /\ error = "") => figure.legends = <<first_done>>

\* C5: each boundary resets the mutable fields: before_strategy binds a
\* fresh empty results mapping, a before_task that returns installs a blank
\* grid with a generator at its start and leaves no captured legend, so the
\* legend shown by after_task comes from a panel of that task's own figure.
C5_Original ==
    /\ last = "before_strategy" => results = nruns /\ heap[results] = <<>>
    /\ (last = "before_task" /\ error = "") =>
          /\ figure = subplots(ntasks, layout.rows, layout.cols)
          /\ axes = generator([i \in 1 .. layout.rows * layout.cols |-> <<ntasks, i>>])
          /\ legend = None
    /\ (last = "after_task" /\ error = "") =>
          \A i \in DOMAIN figure.legends :
              \A j \in DOMAIN figure.legends[i].handles :
                  figure.legends[i].handles[j][1] = figure.id

\* C6: plot_lines given fewer than 2 series fails with ValueError and draws
\* nothing; given 2 or more series that include the X series it returns and
\* draws one line per series other than X.
C6_PlotPrecondition ==
    pc = "plotted" =>
        /\ Len(plot_in) < 2 => plot_out.error = "ValueError" /\ plot_out.ax = NewPanel
        /\ (Len(plot_in) >= 2 /\ HasKey(plot_in, "iter")) =>
              /\ plot_out.error = ""
              /\ Len(plot_out.ax.lines) = Len(plot_in) - 1
              /\ \A k \in KeySet(plot_in) \ {"iter"} :
                    Cardinality({i \in DOMAIN plot_out.ax.lines :
                                    plot_out.ax.lines[i].label = k}) = 1

C6_Witness ==
    /\ pc = "plotted"
    /\ Len(plot_in) = 3
    /\ plot_in[2][1] = "iter"
    /\ plot_out.error = ""
    /\ Len(plot_out.ax.lines) = 2

\* The curves and configs that before_task counts, as sets.
Restrict(a, f) == IF f = {} THEN a ELSE a \cap f

CountedCurves(in) ==
    UNION {{<<i, m, e>> : m \in Restrict(in.curve_data[i][2].metrics, in.filters.metrics),
                          e \in Restrict(in.curve_data[i][2].eval_sets,
                                         in.filters.eval_sets)} :
           i \in {k \in DOMAIN in.curve_data :
                     in.filters.models = {} \/ in.curve_data[k][1] \in in.filters.models}}

CountedConfigs(in) ==
    UNION {{<<i, j>> : j \in DOMAIN in.strategies[i][2]} : i \in DOMAIN in.strategies}

\* C7: before_task computes num_axes = total_curves * total_configs, with
\* total_curves the number of (model, metric, eval_set) combinations that
\* pass the filters and total_configs the number of configs of all
\* strategies, whatever the filters.
C7_NumAxes ==
    last = "before_task" =>
        /\ layout.total_curves = Cardinality(CountedCurves(task_in))
        /\ layout.total_configs = Cardinality(CountedConfigs(task_in))
        /\ layout.num_axes = layout.total_curves * layout.total_configs

C7_Witness ==
    /\ last = "before_task"
    /\ task_in.curve_data =
          <<<<"m1", [eval_sets |-> {"train", "val"}, metrics |-> {"mse", "mae"}]>>>>
    /\ Len(task_in.strategies) = 1
    /\ task_in.filters = [models |-> {}, metrics |-> {"mse"}, eval_sets |-> {}]
    /\ layout.total_curves = 2
    /\ layout.num_axes = 4

\* C8: for num_axes >= 1 before_task allocates cols = ceil(sqrt(num_axes))
\* by rows = ceil(num_axes / cols) panels: at least num_axes panels, and
\* fewer than cols unused ones.
C8_GridSize ==
    (last = "before_task" /\ layout.num_axes >= 1) =>
        /\ error = ""
        /\ layout.cols * layout.cols >= layout.num_axes
        /\ (layout.cols - 1) * (layout.cols - 1) < layout.num_axes
        /\ layout.rows * layout.cols >= layout.num_axes
        /\ (layout.rows - 1) * layout.cols < layout.num_axes
        /\ layout.rows * layout.cols - layout.num_axes < layout.cols
        /\ figure.rows = layout.rows /\ figure.cols = layout.cols
        /\ Len(figure.panels) = layout.rows * layout.cols

C8_Witness ==
    /\ last = "before_task"
    /\ layout.num_axes = 8
    /\ figure.cols = 3
    /\ figure.rows = 3
    /\ Len(figure.panels) = 9

\* C9: before_strategy binds the new aggregator to a fresh empty
\* accumulator that no other observer holds, and the lines after_strategy
\* renders are the values passed to before_iter since that before_strategy.
C9_AccumulatorPerRun ==
    /\ last = "before_strategy" =>
          /\ heap[results] = <<>>
          /\ callbacks.list[Len(callbacks.list)] =
                [cls |-> strategy_callback, results |-> results]
          /\ \A i \in 1 .. Len(callbacks.list) - 1 : callbacks.list[i].results # results
    /\ (last = "after_strategy" /\ error = "") =>
          LET lines == figure.panels[axes.pos - 1].lines
              ps == passed[results]
          IN  /\ Len(lines) = Cardinality(Tracked(strategy_callback)) - 1
              /\ {lines[i].label : i \in DOMAIN lines} =
                    Tracked(strategy_callback) \ {"iter"}
              /\ \A i \in DOMAIN lines :
                    /\ lines[i].x = Column(ps, "iter")
                    /\ lines[i].y = Column(ps, lines[i].label)

C9_Witness ==
    /\ last = "after_strategy"
    /\ error = ""
    /\ axes.pos = 3
    /\ figure.panels[1].lines # <<>>
    /\ figure.panels[2].lines # <<>>
    /\ figure.panels[1].lines[1].x # figure.panels[2].lines[1].x

\* C10: no before_iter or after_iter of an attached observer votes to stop.
C10_NeverVotesStop == \A i \in DOMAIN votes : votes[i] = FALSE

C10_Witness ==
    /\ last = "after_iter"
    /\ niters = 2
    /\ Len(votes) = 2
    /\ callbacks.list[1].cls = "IterativeStrategyCallback"

\* C11: after_task on a callback whose path is None raises and persists
\* nothing; when a legend has been captured the failure is the one of
\* os.path.join, after the title, the legend and the layout were applied.
C11_UnsetPathFails ==
    (last = "after_task" /\ path = None) =>
        /\ error = "TypeError"
        /\ figure.saved = <<>>
        /\ disk = {}
        /\ legend # None => figure.tight_layout

C11_Witness ==
    /\ last = "after_task"
    /\ path = None
    /\ legend # None
    /\ error = "TypeError"
    /\ figure.saved = <<>>

\* C12 as stated: a failed after_task has had none of its effects on the
\* figure, a successful one all of them.
C12_Original ==
    /\ (last = "after_task" /\ error # "") =>
          /\ figure.suptitle = None
          /\ figure.legends = <<>>
          /\ ~figure.tight_layout
          /\ figure.saved = <<>>
    /\ (last = "after_task" /\ error = "") =>
          /\ figure.suptitle # None
          /\ figure.legends # <<>>
          /\ figure.tight_layout
          /\ Len(figure.saved) = 1

\* C12: after_task is all-or-nothing for persistence only.  When it fails
\* nothing is persisted, but the title is already set, and with a captured
\* legend (the failure of an unset path) the legend and the layout are
\* applied too; when it returns, title, legend and layout are applied and
\* the figure is persisted exactly once, to {path}/{file_name}.
C12_PersistenceAllOrNothing ==
    /\ (last = "after_task" /\ error # "") =>
          /\ figure.saved = <<>>
          /\ disk = {}
          /\ figure.suptitle = [text |-> ClassName(strategy_callback)]
          /\ IF legend = None
             THEN figure.legends = <<>> /\ ~figure.tight_layout
             ELSE figure.legends = <<legend>> /\ figure.tight_layout
    /\ (last = "after_task" /\ error = "") =>
          /\ figure.suptitle = [text |-> ClassName(strategy_callback)]
          /\ figure.legends = <<legend>>
          /\ figure.tight_layout
          /\ figure.saved = <<path.str \o "/" \o ClassFileName(strategy_callback)>>
          /\ disk = {path.str \o "/" \o ClassFileName(strategy_callback)}

C12_Witness ==
    /\ last = "after_task"
    /\ error # ""
    /\ figure.suptitle # None
    /\ figure.legends # <<>>
    /\ figure.tight_layout
    /\ figure.saved = <<>>

\* The votes vs in the order given by the permutation p of their indices.
Reordered(vs, p) == [i \in DOMAIN vs |-> vs[p[i]]]

\* C13: after a before_iter or after_iter call on all observers the strategy
\* has halted exactly when at least one of them returned True, and the
\* decision is the same for every order of the observers.
C13_StopVoteIsOr ==
    last \in {"before_iter", "after_iter"} =>
        /\ Len(votes) = Len(ObserverList)
        /\ (pc = "halted") <=> (\E i \in DOMAIN votes : votes[i] = TRUE)
        /\ \A p \in Permutations(DOMAIN votes) :
              StopDecision(Reordered(votes, p)) = (pc = "halted")

C13_Witness ==
    /\ pc = "halted"
    /\ last = "before_iter"
    /\ Len(votes) = 3
    /\ votes[1] = TRUE
    /\ votes[3] = FALSE

\* A step of before_strategy, and a step of after_strategy.
IsBeforeStrategy == pc = "task" /\ pc' = "strategy"

IsAfterStrategy == pc = "strategy" /\ pc' = "task"

\* C14: before_strategy appends the new aggregator after the observers
\* already in a non-empty list, whose order it keeps, and makes it the only
\* element of an absent or empty list; the aggregator holds the very
\* accumulator that the callback's results field now refers to, a new one.
C14_AttachAppends ==
    [][IsBeforeStrategy =>
          LET new_callback == [cls |-> strategy_callback, results |-> results']
          IN  /\ callbacks'.list = IF CbLen(callbacks) > 0
                                   THEN callbacks.list \o <<new_callback>>
                                   ELSE <<new_callback>>
              /\ callbacks'.list[Len(callbacks'.list)].results = results'
              /\ results' \notin Referenced(callbacks) \cup {results}
              /\ heap'[results'] = <<>>]_vars

C14_Witness ==
    /\ last = "before_strategy"
    /\ Len(callbacks.list) = 2
    /\ callbacks.list[1] = [cls |-> "IterativeStrategyCallback", results |-> 0]
    /\ callbacks.list[2] = [cls |-> strategy_callback, results |-> results]

\* C15: the k-th after_strategy call since before_task takes the k-th panel
\* of the grid (panels are numbered row by row) and touches no other panel;
\* once all rows * cols panels are taken every further call raises
\* StopIteration and leaves the figure and the sequence alone.
C15_PanelsInOrder ==
    [][IsAfterStrategy =>
          IF nafter < Capacity
          THEN /\ axes.pos = nafter + 1
               /\ axes.items[axes.pos] = <<figure.id, nafter + 1>>
               /\ axes'.pos = axes.pos + 1
               /\ axes'.items = axes.items
               /\ \A i \in DOMAIN figure.panels :
                     i # nafter + 1 => figure'.panels[i] = figure.panels[i]
          ELSE /\ error' = "StopIteration"
               /\ axes' = axes
               /\ figure' = figure]_vars

C15_Witness ==
    /\ last = "after_strategy"
    /\ error = ""
    /\ nafter = 2
    /\ Capacity = 4
    /\ axes.pos = 3
    /\ figure.panels[1].title # None
    /\ figure.panels[2].title # None
    /\ figure.panels[3] = NewPanel

\* A run of the strategy in which before_iter was not called.
ZeroIterations == passed[results] = <<>>

\* C16 as stated: after a run with zero iterations after_strategy raises the
\* ValueError of plot_lines.
C16_Original ==
    [][(IsAfterStrategy /\ ZeroIterations) =>
          /\ heap[results] = <<>>
          /\ error' = "ValueError"
          /\ legend' = legend
          /\ \A i \in DOMAIN figure.panels :
                figure'.panels[i].title = figure.panels[i].title]_vars

\* C16: after a run with zero iterations the accumulator is empty and
\* after_strategy raises the ValueError of plot_lines if a panel is left,
\* and StopIteration, before plot_lines is reached, if none is; either way
\* no legend is captured and no panel is titled.
C16_ZeroIterationsFail ==
    [][(IsAfterStrategy /\ ZeroIterations) =>
          /\ heap[results] = <<>>
          /\ error' = IF axes.pos <= Len(axes.items) THEN "ValueError" ELSE "StopIteration"
          /\ legend' = legend
          /\ figure' = figure]_vars

C16_Witness ==
    /\ last = "after_strategy"
    /\ passed[results] = <<>>
    /\ heap[results] = <<>>
    /\ error = "ValueError"
    /\ legend = None
    /\ figure.panels[nafter] = NewPanel

\* C17: a failing after_strategy, which fails either with StopIteration or
\* with the ValueError of plot_lines, leaves the observer list as it was,
\* the aggregator of the run still its last element; on ValueError a panel
\* has been taken from the sequence, on StopIteration none was left.
C17_NoDetachOnFailure ==
    [][(IsAfterStrategy /\ error' # "") =>
          /\ error' \in {"StopIteration", "ValueError"}
          /\ callbacks' = callbacks
          /\ callbacks'.list[Len(callbacks'.list)] =
                [cls |-> strategy_callback, results |-> results]
          /\ error' = "ValueError" =>
                (axes.pos <= Len(axes.items) /\ axes'.pos = axes.pos + 1)
          /\ error' = "StopIteration" =>
                (axes.pos > Len(axes.items) /\ axes' = axes)]_vars

C17_Witness ==
    /\ last = "after_strategy"
    /\ error = "ValueError"
    /\ Len(callbacks.list) = 2
    /\ callbacks.list[1].cls = "IterativeStrategyCallback"
    /\ callbacks.list[2] = [cls |-> strategy_callback, results |-> results]
    /\ axes.pos = 2

\* C18: after_task on a callback that has captured no legend raises at
\* figure.legend: the title is set, no legend is drawn, the layout is not
\* tightened and nothing is saved; an after_task that succeeds has a legend.
C18_LegendRequired ==
    /\ (last = "after_task" /\ legend = None) =>
          /\ error = "TypeError"
          /\ figure.suptitle = [text |-> ClassName(strategy_callback)]
          /\ figure.legends = <<>>
          /\ ~figure.tight_layout
          /\ figure.saved = <<>>
          /\ disk = {}
    /\ (last = "after_task" /\ error = "") => legend # None

C18_Witness ==
    /\ last = "after_task"
    /\ legend = None
    /\ path # None
    /\ nafter > 0
    /\ error = "TypeError"
    /\ figure.suptitle # None
    /\ figure.legends = <<>>
    /\ figure.saved = <<>>

\* A step of before_task.
IsBeforeTask == ntasks' = ntasks + 1

\* C19: before_task fails with ZeroDivisionError exactly when num_axes is 0;
\* cols is then 0, no grid is allocated, and figure and axes are the ones
\* from before the call.
C19_ZeroAxesFails ==
    [][IsBeforeTask =>
          /\ (layout'.num_axes = 0) <=> (error' = "ZeroDivisionError")
          /\ layout'.num_axes = 0 =>
                /\ layout'.cols = 0
                /\ figure' = figure
                /\ axes' = axes]_vars

C19_Witness ==
    /\ last = "before_task"
    /\ error = "ZeroDivisionError"
    /\ layout.num_axes = 0
    /\ figure # None
    /\ figure.saved # <<>>
    /\ axes # None
    /\ axes.pos = 2

====
